---- MODULE Spec2Model ----
(***************************************************************************)
(* A model of muse/core.py: the pitch-class tables, Pitch and its step     *)
(* operation, Interval.name, and ScaleSequence with its triads generator.  *)
(* The library is a set of pure operations on value objects, so each       *)
(* specification draws its inputs in Init and its actions apply the        *)
(* operations as the code computes them.                                   *)
(***************************************************************************)
EXTENDS Integers, Sequences, FiniteSets, TLC

VARIABLES
    recv,       \* the Pitch a caller holds and calls step on
    calls,      \* the calls of Pitch.step made so far, oldest first
    interval,   \* Interval.interval
    named,      \* what reading Interval.name gave: <<>> before, <<outcome>> after
    root,       \* ScaleSequence.root
    sequence,   \* the InitVar `sequence` given to ScaleSequence
    scale,      \* outcome of ScaleSequence.__post_init__: kind, exc, pitches
    gen,        \* the generator a read of ScaleSequence.triads returned
    yielded,    \* what the current generator has yielded so far
    reads       \* how many times ScaleSequence.triads was read

vars == <<recv, calls, interval, named, root, sequence, scale, gen, yielded, reads>>

\* ------------------------------------------------------------------ bounds
MaxOctave == 4
MaxStep == 12
MaxInterval == 26
MaxPatLen == 3

\* ------------------------------------------------------- PitchMapping tables
PITCHES_TO_INDEX ==
    [n \in {"C", "B#", "C#", "Db", "D", "D#", "Eb", "E", "Fb", "F", "E#",
            "F#", "Gb", "G", "G#", "Ab", "A", "A#", "Bb", "B", "Cb"} |->
        CASE n \in {"C", "B#"} -> 0
          [] n \in {"C#", "Db"} -> 1
          [] n = "D" -> 2
          [] n \in {"D#", "Eb"} -> 3
          [] n \in {"E", "Fb"} -> 4
          [] n \in {"F", "E#"} -> 5
          [] n \in {"F#", "Gb"} -> 6
          [] n = "G" -> 7
          [] n \in {"G#", "Ab"} -> 8
          [] n = "A" -> 9
          [] n \in {"A#", "Bb"} -> 10
          [] n \in {"B", "Cb"} -> 11]

\* class -> <<sharp spelling, flat spelling>>; Python's [0] is [1] here and
\* Python's [-1] is [2].
INDEX_TO_PITCHES ==
    [c \in 0..11 |->
        CASE c = 0 -> <<"C", "C">>
          [] c = 1 -> <<"C#", "Db">>
          [] c = 2 -> <<"D", "D">>
          [] c = 3 -> <<"D#", "Eb">>
          [] c = 4 -> <<"E", "F">>
          [] c = 5 -> <<"F", "F">>
          [] c = 6 -> <<"F#", "Gb">>
          [] c = 7 -> <<"G", "G">>
          [] c = 8 -> <<"G#", "Ab">>
          [] c = 9 -> <<"A", "A">>
          [] c = 10 -> <<"A#", "Bb">>
          [] c = 11 -> <<"B", "B">>]

\* ------------------------------------------------------------------- Pitch
ValidNote(note) == note \in DOMAIN PITCHES_TO_INDEX

\* Pitch.__post_init__ for a recognised note: the cached offset from C0.
\* (The cached frequency is a float no operation below reads.)
Pitch(note, octave) ==
    [note |-> note, octave |-> octave,
     offset_c0 |-> PITCHES_TO_INDEX[note] + 12 * octave]

Returned(self, p) == [self |-> self, kind |-> "returned", exc |-> "", value |-> <<p>>]
Raised(self, e) == [self |-> self, kind |-> "raised", exc |-> e, value |-> <<>>]

\* step with the floor test off by one: C0 itself is refused.
step_floor_off_by_one(self, semitones, reset_octave) ==
    IF semitones = 0 THEN Returned(self, self)
    ELSE LET target == self.offset_c0 + semitones IN
         IF target <= 0 THEN Raised(self, "ArithmeticError")
         ELSE LET octave == IF reset_octave THEN self.octave ELSE target \div 12
                  names == INDEX_TO_PITCHES[target % 12]
                  note == names[IF semitones > 0 THEN 1 ELSE Len(names)]
              IN IF ValidNote(note) THEN Returned(self, Pitch(note, octave))
                 ELSE Raised(self, "ValueError")

\* Pitch.step: `self` in the outcome is the receiver as the call leaves it.
step(self, semitones, reset_octave) ==
    IF semitones = 0 THEN Returned(self, self)
    ELSE LET target == self.offset_c0 + semitones IN
         IF target < 0 THEN Raised(self, "ArithmeticError")
         ELSE LET octave == IF reset_octave THEN self.octave ELSE target \div 12
                  names == INDEX_TO_PITCHES[target % 12]
                  note == names[IF semitones > 0 THEN 1 ELSE Len(names)]
              IN IF ValidNote(note) THEN Returned(self, Pitch(note, octave))
                 ELSE Raised(self, "ValueError")

\* ----------------------------------------------------- specification: Pitch
Pitches(top) == {Pitch(n, o) : n \in DOMAIN PITCHES_TO_INDEX, o \in 0..top}

Idle ==
    /\ interval = 0 /\ named = <<>>
    /\ root = Pitch("C", 4) /\ sequence = [isStr |-> TRUE, name |-> "MAJOR", steps |-> <<>>]
    /\ scale = [kind |-> "none", exc |-> "", pitches |-> <<>>]
    /\ gen = <<>> /\ yielded = <<>> /\ reads = 0

InitPitch ==
    /\ recv \in Pitches(MaxOctave)
    /\ calls = <<>>
    /\ Idle

\* p.step(semitones, reset_octave) on the held pitch.
Step(semitones, reset_octave) ==
    LET out == step(recv, semitones, reset_octave) IN
    /\ calls = <<>>
    /\ recv' = out.self
    /\ calls' = <<[before |-> recv, semitones |-> semitones,
                   reset_octave |-> reset_octave, out |-> out]>>
    /\ UNCHANGED <<interval, named, root, sequence, scale, gen, yielded, reads>>

\* The second call of p.step(a, ..).step(semitones, reset_octave): step on the
\* pitch the first call returned.
StepResult(semitones, reset_octave) ==
    /\ Len(calls) = 1
    /\ calls[1].out.kind = "returned"
    /\ LET q == calls[1].out.value[1]
           out == step(q, semitones, reset_octave)
       IN calls' = Append(calls, [before |-> q, semitones |-> semitones,
                                  reset_octave |-> reset_octave, out |-> out])
    /\ UNCHANGED <<recv, interval, named, root, sequence, scale, gen, yielded, reads>>

NextPitch ==
    \/ \E s \in -MaxStep..MaxStep, r \in BOOLEAN : Step(s, r)
    \/ \E s \in -MaxStep..MaxStep, r \in BOOLEAN : StepResult(s, r)

SpecPitch == InitPitch /\ [][NextPitch]_vars

\* ---------------------------------------------------------------- Interval
SHORT_NAMES ==
    [k \in 0..12 |->
        CASE k = 0 -> "P1" [] k = 1 -> "m2" [] k = 2 -> "M2" [] k = 3 -> "m3"
          [] k = 4 -> "M3" [] k = 5 -> "P4" [] k = 6 -> "TT" [] k = 7 -> "P5"
          [] k = 8 -> "m6" [] k = 9 -> "M6" [] k = 10 -> "m7" [] k = 11 -> "M7"
          [] k = 12 -> "P8"]

LONG_NAMES ==
    [k \in 0..12 |->
        CASE k = 0 -> "Unison" [] k = 1 -> "Minor Second" [] k = 2 -> "Major Second"
          [] k = 3 -> "Minor Third" [] k = 4 -> "Major Third"
          [] k = 5 -> "Perfect Fourth" [] k = 6 -> "Tritone"
          [] k = 7 -> "Perfect Fifth" [] k = 8 -> "Minor Sixth"
          [] k = 9 -> "Major Sixth" [] k = 10 -> "Minor Seventh"
          [] k = 11 -> "Major Seventh" [] k = 12 -> "Octave"]

\* A dict subscript: the value under the key, or KeyError.
Subscript(table, key) ==
    IF key \in DOMAIN table
    THEN [kind |-> "returned", exc |-> "", value |-> table[key]]
    ELSE [kind |-> "raised", exc |-> "KeyError", value |-> ""]

\* Interval.name
name(self_interval, short) ==
    LET offset == IF self_interval < 0 THEN self_interval ELSE 12 - self_interval
    IN IF short THEN Subscript(SHORT_NAMES, offset) ELSE Subscript(LONG_NAMES, offset)

\* -------------------------------------------------- specification: Interval
InitInterval ==
    /\ interval \in -MaxInterval..MaxInterval
    /\ named = <<>>
    /\ recv = Pitch("C", 4) /\ calls = <<>>
    /\ root = Pitch("C", 4) /\ sequence = [isStr |-> TRUE, name |-> "MAJOR", steps |-> <<>>]
    /\ scale = [kind |-> "none", exc |-> "", pitches |-> <<>>]
    /\ gen = <<>> /\ yielded = <<>> /\ reads = 0

\* Interval(interval).name: a property read, so `short` keeps its default.
ReadName ==
    /\ named = <<>>
    /\ named' = <<name(interval, TRUE)>>
    /\ UNCHANGED <<recv, calls, interval, root, sequence, scale, gen, yielded, reads>>

NextInterval == ReadName

SpecInterval == InitInterval /\ [][NextInterval]_vars

\* ----------------------------------------------------------- ScaleSequence
SCALES ==
    [s \in {"MAJOR", "IONION", "DORIAN", "PHRYGIAN", "LYDIAN", "MIXOLYDIAN",
            "AEOLIAN", "MINOR", "LOCRIAN"} |->
        CASE s = "MAJOR" -> <<2, 2, 1, 2, 2, 2, 1>>
          [] s = "IONION" -> <<2, 2, 1, 2, 2, 2, 1>>
          [] s = "DORIAN" -> <<2, 1, 2, 2, 2, 1, 2>>
          [] s = "PHRYGIAN" -> <<1, 2, 2, 2, 1, 2, 2>>
          [] s = "LYDIAN" -> <<2, 2, 2, 1, 2, 2, 1>>
          [] s = "MIXOLYDIAN" -> <<2, 2, 1, 2, 2, 1, 2, 2>>
          [] s = "AEOLIAN" -> <<2, 1, 2, 2, 1, 2, 2>>
          [] s = "MINOR" -> <<2, 1, 2, 2, 1, 2, 2>>
          [] s = "LOCRIAN" -> <<1, 2, 2, 1, 2, 2, 2>>]

\* str.upper() on the names the specification draws.
upper(s) ==
    CASE s = "major" -> "MAJOR"
      [] s = "Ionian" -> "IONIAN"
      [] s = "blues" -> "BLUES"
      [] OTHER -> s

\* The for loop of ScaleSequence.__post_init__ from its i-th step on; a step
\* that raises leaves the constructor before self.pitches is assigned.
RECURSIVE Walk(_, _, _)
Walk(pitches, steps, i) ==
    IF i > Len(steps) THEN [kind |-> "built", exc |-> "", pitches |-> pitches]
    ELSE LET out == step(pitches[Len(pitches)], steps[i], TRUE) IN
         IF out.kind = "raised" THEN [kind |-> "raised", exc |-> out.exc, pitches |-> <<>>]
         ELSE Walk(Append(pitches, out.value[1]), steps, i + 1)

\* ScaleSequence.__post_init__
post_init(self_root, seq) ==
    IF seq.isStr /\ upper(seq.name) \notin DOMAIN SCALES
    THEN [kind |-> "raised", exc |-> "ValueError", pitches |-> <<>>]
    ELSE Walk(<<self_root>>,
              IF seq.isStr THEN SCALES[upper(seq.name)] ELSE seq.steps, 1)

\* triads taking the third of each tuple three places on instead of four.
TriadAt_third_off(pitches, i, extended) ==
    LET n == Len(pitches) IN
    IF extended
    THEN <<pitches[i + 1], pitches[((i + 2) % n) + 1], pitches[((i + 3) % n) + 1],
           pitches[((i + 6) % n) + 1]>>
    ELSE <<pitches[i + 1], pitches[((i + 2) % n) + 1], pitches[((i + 3) % n) + 1]>>

\* What the body of ScaleSequence.triads yields for loop index i.
TriadAt(pitches, i, extended) ==
    LET n == Len(pitches) IN
    IF extended
    THEN <<pitches[i + 1], pitches[((i + 2) % n) + 1], pitches[((i + 4) % n) + 1],
           pitches[((i + 6) % n) + 1]>>
    ELSE <<pitches[i + 1], pitches[((i + 2) % n) + 1], pitches[((i + 4) % n) + 1]>>

\* range(n - 1) of ScaleSequence.triads: whether loop index i is in it.
InRange(pitches, i) == i < Len(pitches) - 1

\* --------------------------------------------- specification: ScaleSequence
ScaleNames == DOMAIN SCALES \cup {"IONIAN", "BLUES", "major", "Ionian", "blues"}
PatSteps == {-1, 0, 1, 2}
Patterns == UNION {[1..k -> PatSteps] : k \in 0..MaxPatLen}
Sequences ==
    {[isStr |-> TRUE, name |-> s, steps |-> <<>>] : s \in ScaleNames}
    \cup {[isStr |-> FALSE, name |-> "", steps |-> p] : p \in Patterns}

InitScale ==
    /\ root \in Pitches(MaxOctave)
    /\ sequence \in Sequences
    /\ scale = [kind |-> "none", exc |-> "", pitches |-> <<>>]
    /\ gen = <<>> /\ yielded = <<>> /\ reads = 0
    /\ recv = Pitch("C", 4) /\ calls = <<>>
    /\ interval = 0 /\ named = <<>>

\* ScaleSequence(root, sequence)
Construct ==
    /\ scale.kind = "none"
    /\ scale' = post_init(root, sequence)
    /\ UNCHANGED <<recv, calls, interval, named, root, sequence, gen, yielded, reads>>

\* A read of scale.triads: a fresh generator whose body has not started; a
\* property read, so `extended` keeps its default. reads counts 0, 1, many.
ReadTriads ==
    /\ scale.kind = "built"
    /\ gen' = <<[i |-> 0, done |-> FALSE]>>
    /\ yielded' = <<>>
    /\ reads' = IF reads = 0 THEN 1 ELSE 2
    /\ UNCHANGED <<recv, calls, interval, named, root, sequence, scale>>

\* next() on the generator: the next tuple, or StopIteration at the loop's end.
GenNext ==
    /\ gen # <<>>
    /\ ~gen[1].done
    /\ IF InRange(scale.pitches, gen[1].i)
       THEN /\ yielded' = Append(yielded, TriadAt(scale.pitches, gen[1].i, FALSE))
            /\ gen' = <<[i |-> gen[1].i + 1, done |-> FALSE]>>
       ELSE /\ gen' = <<[i |-> gen[1].i, done |-> TRUE]>>
            /\ UNCHANGED yielded
    /\ UNCHANGED <<recv, calls, interval, named, root, sequence, scale, reads>>

NextScale == Construct \/ ReadTriads \/ GenNext

SpecScale == InitScale /\ [][NextScale]_vars

\* ================================================================== claims
\* The absolute offset of a pitch as the claims define it: the pitch class of
\* its note name plus 12 times its octave.
AbsoluteOffset(p) == PITCHES_TO_INDEX[p.note] + 12 * p.octave

\* C1: every non-zero step with reset_octave false whose target offset is
\* >= 0 returns a pitch whose absolute offset is the receiver's plus semitones.
C1_StepReachesTarget ==
    \A k \in 1..Len(calls) :
        LET c == calls[k] IN
        (c.semitones # 0 /\ ~c.reset_octave /\ c.before.offset_c0 + c.semitones >= 0)
        => /\ c.out.kind = "returned"
           /\ AbsoluteOffset(c.out.value[1]) = AbsoluteOffset(c.before) + c.semitones

\* C2: p.step(s).step(-s), both steps in range and reset_octave false, has the
\* absolute offset of p.
C2_StepRoundTrip ==
    (/\ Len(calls) = 2
     /\ calls[2].out.kind = "returned"
     /\ calls[2].semitones = -calls[1].semitones
     /\ ~calls[1].reset_octave /\ ~calls[2].reset_octave)
    => AbsoluteOffset(calls[2].out.value[1]) = AbsoluteOffset(calls[1].before)

\* C3: both names the class-to-names table stores for a pitch class map back
\* to that class in the name-to-class table; stated for the class of the held
\* pitch, which ranges over all twelve classes.
C3_TablesConsistent ==
    LET c == PITCHES_TO_INDEX[recv.note] IN
    \A j \in 1..Len(INDEX_TO_PITCHES[c]) :
        /\ INDEX_TO_PITCHES[c][j] \in DOMAIN PITCHES_TO_INDEX
        /\ PITCHES_TO_INDEX[INDEX_TO_PITCHES[c][j]] = c

\* C4: a non-zero step raises exactly when the target offset is negative,
\* whatever reset_octave is, returning no pitch then and a pitch otherwise; and
\* no call, failed or successful, changes its receiver's note or octave.
C4_StepFailsExactlyBelowFloor ==
    /\ \A k \in 1..Len(calls) :
        LET c == calls[k] IN
        /\ c.semitones # 0 =>
            /\ (c.out.kind = "raised") <=> (c.before.offset_c0 + c.semitones < 0)
            /\ (c.out.kind = "returned") <=> (c.before.offset_c0 + c.semitones >= 0)
            /\ c.out.kind = "raised" => c.out.value = <<>>
            /\ c.out.kind = "returned" => Len(c.out.value) = 1
        /\ c.out.self.note = c.before.note
        /\ c.out.self.octave = c.before.octave
    /\ calls # <<>> => recv = calls[1].before

\* C4's case: a successful non-zero step followed by one that falls below C0.
C4_Witness ==
    /\ Len(calls) = 2
    /\ calls[1].semitones # 0 /\ calls[1].out.kind = "returned"
    /\ calls[2].out.kind = "raised" /\ calls[2].out.exc = "ArithmeticError"
    /\ calls[2].before.offset_c0 + calls[2].semitones < 0

\* The first character of a note name.
Letter(note) ==
    CASE note \in {"C", "C#", "Cb"} -> "C"
      [] note \in {"D", "D#", "Db"} -> "D"
      [] note \in {"E", "E#", "Eb"} -> "E"
      [] note \in {"F", "F#", "Fb"} -> "F"
      [] note \in {"G", "G#", "Gb"} -> "G"
      [] note \in {"A", "A#", "Ab"} -> "A"
      [] note \in {"B", "B#", "Bb"} -> "B"

NaturalCycle == <<"C", "D", "E", "F", "G", "A", "B">>
CycleIndex(letter) == CHOOSE k \in 1..7 : NaturalCycle[k] = letter

\* The step pattern the constructor resolves `sequence` to.
Resolved == IF sequence.isStr THEN SCALES[upper(sequence.name)] ELSE sequence.steps

\* C5: with a pattern of exactly 7 steps, the letters of the first seven
\* pitches advance one step at a time through C,D,E,F,G,A,B from the root's.
C5_LettersAdvance ==
    (scale.kind = "built" /\ Len(Resolved) = 7)
    => \A k \in 1..7 :
        Letter(scale.pitches[k].note)
            = NaturalCycle[((CycleIndex(Letter(root.note)) - 1 + k - 1) % 7) + 1]

\* C6: pitches[0] is the root and consecutive pitches differ by the
\* corresponding step of the pattern.
C6_ConsecutiveDifferByStep ==
    scale.kind = "built"
    => /\ scale.pitches[1] = root
       /\ Len(scale.pitches) = Len(Resolved) + 1
       /\ \A i \in 1..Len(Resolved) :
            scale.pitches[i + 1].offset_c0 - scale.pitches[i].offset_c0 = Resolved[i]

\* The catalog of scale names as documented.
Catalog == {"MAJOR", "IONIAN", "DORIAN", "PHRYGIAN", "LYDIAN", "MIXOLYDIAN",
            "AEOLIAN", "MINOR", "LOCRIAN"}

\* C7: construction from a name succeeds for every catalog name (MAJOR and
\* IONIAN, and AEOLIAN and MINOR, resolving to the same pattern) and raises,
\* with no pitches stored, for every other name.
C7_CatalogNames ==
    (scale.kind # "none" /\ sequence.isStr)
    => /\ upper(sequence.name) \in Catalog =>
            /\ scale.kind = "built"
            /\ upper(sequence.name) = "IONIAN" => Resolved = SCALES["MAJOR"]
            /\ upper(sequence.name) = "AEOLIAN" => Resolved = SCALES["MINOR"]
       /\ upper(sequence.name) \notin Catalog =>
            /\ scale.kind = "raised"
            /\ scale.pitches = <<>>

\* C8: every scale built from a catalog name has exactly 8 pitches, from a
\* 7-step pattern summing to 12, and its 8th pitch has the root's pitch class.
C8_EightPitches ==
    (scale.kind = "built" /\ sequence.isStr)
    => /\ Len(Resolved) = 7
       /\ Len(scale.pitches) = 8
       /\ PITCHES_TO_INDEX[scale.pitches[8].note] = PITCHES_TO_INDEX[root.note]

\* C9: an enumeration of triads yields, in order i = 0..n-2, the tuples
\* (pitches[i], pitches[(i+2) % n], pitches[(i+4) % n]) of the stored list,
\* n-1 of them when it ends; a new enumeration starts again from i = 0; the
\* stored pitches stay as constructed; C4 major starts with (C4, E4, G4).
C9_Triads ==
    gen # <<>> =>
        LET n == Len(scale.pitches) IN
        /\ scale = post_init(root, sequence)
        /\ Len(yielded) = gen[1].i
        /\ Len(yielded) <= n - 1
        /\ gen[1].done => Len(yielded) = n - 1
        /\ \A k \in 1..Len(yielded) :
            yielded[k] = <<scale.pitches[k], scale.pitches[((k + 1) % n) + 1],
                           scale.pitches[((k + 3) % n) + 1]>>
        /\ (/\ root = Pitch("C", 4) /\ sequence.isStr /\ sequence.name = "MAJOR"
            /\ yielded # <<>>)
           => yielded[1] = <<Pitch("C", 4), Pitch("E", 4), Pitch("G", 4)>>

\* C9's case: the second enumeration of C4 major's triads has run to its end.
C9_Witness ==
    /\ root = Pitch("C", 4) /\ sequence.isStr /\ sequence.name = "MAJOR"
    /\ reads = 2
    /\ gen # <<>> /\ gen[1].done
    /\ Len(yielded) = 7
    /\ yielded[1] = <<Pitch("C", 4), Pitch("E", 4), Pitch("G", 4)>>
    /\ yielded[7][2] = scale.pitches[1]

\* C10: for an interval in -12..12 reading the name never fails and gives the
\* short name at offset 12 - i when i >= 0 and at offset i when i < 0.
C10_NameLookup ==
    (named # <<>> /\ interval \in -12..12)
    => LET offset == IF interval >= 0 THEN 12 - interval ELSE interval IN
       /\ named[1].kind = "returned"
       /\ offset \in DOMAIN SHORT_NAMES
       /\ named[1].value = SHORT_NAMES[offset]

====
